---- MODULE Spec2Model ----
(***************************************************************************)
(* Model of Firstcry.py: the marketplace settlement calculator.            *)
(*                                                                         *)
(* Numbers are exact rationals [k |-> "num", n, d] (d > 0, lowest terms).  *)
(* Python floats are modelled by their exact real value; a missing cell    *)
(* (pandas NaN) is the value NaN, a non-numeric text cell is Str and the   *)
(* Python None is None.  All four have the same record shape.              *)
(***************************************************************************)
EXTENDS Integers, Sequences, FiniteSets, TLC

VARIABLES flat_rate, tds_rate, tcs_rate,
          uploaded_payout_file, payout_msg, processed_payout_df,
          uploaded_price_file, price_msg, processed_price_df,
          args, req_sp, results, verified, uploads

vars == <<flat_rate, tds_rate, tcs_rate,
          uploaded_payout_file, payout_msg, processed_payout_df,
          uploaded_price_file, price_msg, processed_price_df,
          args, req_sp, results, verified, uploads>>

(***************************************************************************)
(* Values                                                                  *)
(***************************************************************************)
Abs(x) == IF x < 0 THEN -x ELSE x

RECURSIVE GCD(_, _)
GCD(a, b) == IF b = 0 THEN a ELSE GCD(b, a % b)

\* the rational n/d (d # 0) in lowest terms with a positive denominator
Rat(n, d) ==
    LET g == GCD(Abs(n), Abs(d))
        s == IF d < 0 THEN -1 ELSE 1
    IN  [k |-> "num", n |-> s * (n \div g), d |-> s * (d \div g)]

Int2(n) == Rat(n, 1)
NaN  == [k |-> "nan",  n |-> 0, d |-> 1]
\* the outcome of a float division by zero: ZeroDivisionError for Python
\* floats, inf or nan (with a warning) for numpy floats
ZDiv == [k |-> "zdiv", n |-> 0, d |-> 1]
Str  == [k |-> "str",  n |-> 0, d |-> 1]
None == [k |-> "none", n |-> 0, d |-> 1]

IsNum(x) == x.k = "num"
IsNull(x) == x.k \in {"nan", "none"}

(***************************************************************************)
(* Float arithmetic on numbers and NaN (a NaN operand gives NaN, a        *)
(* comparison with NaN is false).  Str and None operands raise TypeError   *)
(* in Python; callers test for them before using these operators.          *)
(***************************************************************************)
\* the result when an operand is not a number
NonNum(a, b) == IF a.k = "zdiv" \/ b.k = "zdiv" THEN ZDiv ELSE NaN

Add(a, b) ==
    IF ~IsNum(a) \/ ~IsNum(b) THEN NonNum(a, b)
    ELSE LET g == GCD(a.d, b.d)
         IN  Rat(a.n * (b.d \div g) + b.n * (a.d \div g), (a.d \div g) * b.d)

Neg(a) == IF ~IsNum(a) THEN NonNum(a, a) ELSE [k |-> "num", n |-> -a.n, d |-> a.d]

Sub(a, b) == Add(a, Neg(b))

Mul(a, b) ==
    IF ~IsNum(a) \/ ~IsNum(b) THEN NonNum(a, b)
    ELSE LET g1 == GCD(Abs(a.n), b.d)
             g2 == GCD(Abs(b.n), a.d)
         IN  Rat((a.n \div g1) * (b.n \div g2), (a.d \div g2) * (b.d \div g1))

IsZero(a) == IsNum(a) /\ a.n = 0

Div(a, b) ==
    IF ~IsNum(a) \/ ~IsNum(b) THEN NonNum(a, b)
    ELSE IF IsZero(b) THEN ZDiv
    ELSE Mul(a, Rat(b.d, b.n))

Le(a, b) == IsNum(a) /\ IsNum(b) /\ Sub(a, b).n <= 0
Lt(a, b) == IsNum(a) /\ IsNum(b) /\ Sub(a, b).n < 0
Gt(a, b) == Lt(b, a)

\* round(2): round half to even at two decimals
Round2(x) ==
    IF ~IsNum(x) THEN x
    ELSE LET whole == x.n \div x.d
             frac == x.n % x.d
             q == whole * 100 + ((frac * 100) \div x.d)
             r == (frac * 100) % x.d
             up == \/ 2 * r > x.d
                   \/ (2 * r = x.d /\ q % 2 = 1)
         IN  Rat(IF up THEN q + 1 ELSE q, 100)

Hundred == Int2(100)
One == Int2(1)
Zero == Int2(0)

(***************************************************************************)
(* Core logic functions                                                    *)
(***************************************************************************)
\* variant: TCS taken on the taxable base instead of the tax component
Denominator_TcsOnTaxable(gst_rate, royalty_percent, flat, tds, tcs) ==
    LET gst_r == Div(gst_rate, Hundred)
        royalty_r == Div(royalty_percent, Hundred)
    IN  Sub(Sub(Sub(One, flat), royalty_r),
            Div(Add(tds, tcs), Add(One, gst_r)))

\* the backward denominator (gst_rate >= 0, all operands numbers or NaN)
Denominator(gst_rate, royalty_percent, flat, tds, tcs) ==
    LET gst_r == Div(gst_rate, Hundred)
        royalty_r == Div(royalty_percent, Hundred)
    IN  Sub(Sub(Sub(One, flat), royalty_r),
            Div(Add(tds, Mul(gst_r, tcs)), Add(One, gst_r)))

\* variant: only a negative denominator is rejected
calculate_sale_price_StrictCheck(product_cost, target_profit, gst_rate, royalty_percent, flat, tds, tcs) ==
    IF \E v \in {product_cost, target_profit, gst_rate, royalty_percent} :
           v.k \in {"str", "none"}
    THEN None
    ELSE LET numerator == Add(target_profit, product_cost)
             denominator ==
                 Denominator(gst_rate, royalty_percent, flat, tds, tcs)
         IN  IF Lt(denominator, Zero) THEN None
             ELSE Div(numerator, denominator)

calculate_sale_price(product_cost, target_profit, gst_rate, royalty_percent, flat, tds, tcs) ==
    IF \E v \in {product_cost, target_profit, gst_rate, royalty_percent} :
           v.k \in {"str", "none"}
    THEN None                               \* TypeError, caught
    ELSE LET numerator == Add(target_profit, product_cost)
             denominator ==
                 Denominator(gst_rate, royalty_percent, flat, tds, tcs)
         IN  IF Le(denominator, Zero) THEN None
             ELSE Div(numerator, denominator)

Keys == {"Net_Profit", "Final_Settled_Amount", "Flat_Deduction_Amount",
         "Royalty_Fee_Amount", "TDS_Amount", "TCS_Amount", "Taxable_Amount"}

\* variant: GST taken as a percentage of the tax-inclusive price
GstValue_OnInclusive(sale_price, gst_rate) ==
    Mul(sale_price, Div(gst_rate, Hundred))

\* gst_value of lines 38-39
GstValue(sale_price, gst_rate) ==
    Sub(sale_price, Div(sale_price, Add(One, Div(gst_rate, Hundred))))

\* variant: TCS left out of the total
TotalDeductions_NoTcs(flat_deduction, royalty_fee, tds_amount, tcs_amount) ==
    Add(Add(flat_deduction, royalty_fee), tds_amount)

TotalDeductions(flat_deduction, royalty_fee, tds_amount, tcs_amount) ==
    Add(Add(Add(flat_deduction, royalty_fee), tds_amount), tcs_amount)

\* the breakdown of lines 38-58
Breakdown(sale_price, product_cost, gst_rate, royalty_percent, flat, tds, tcs) ==
    LET gst_r == Div(gst_rate, Hundred)
        royalty_r == Div(royalty_percent, Hundred)
        taxable_amount == Div(sale_price, Add(One, gst_r))
        gst_value == GstValue(sale_price, gst_rate)
        flat_deduction == Mul(sale_price, flat)
        royalty_fee == Mul(sale_price, royalty_r)
        tds_amount == Mul(taxable_amount, tds)
        tcs_amount == Mul(gst_value, tcs)
        total_deductions ==
            TotalDeductions(flat_deduction, royalty_fee, tds_amount, tcs_amount)
        final_settled_amount == Sub(sale_price, total_deductions)
        net_profit == Sub(final_settled_amount, product_cost)
    IN  [Net_Profit |-> net_profit,
         Final_Settled_Amount |-> final_settled_amount,
         Flat_Deduction_Amount |-> flat_deduction,
         Royalty_Fee_Amount |-> royalty_fee,
         TDS_Amount |-> tds_amount,
         TCS_Amount |-> tcs_amount,
         Taxable_Amount |-> taxable_amount]

\* the degenerate breakdown of line 33
Degenerate(product_cost) ==
    [Net_Profit |-> Neg(product_cost),
     Final_Settled_Amount |-> Neg(product_cost),
     Flat_Deduction_Amount |-> Zero,
     Royalty_Fee_Amount |-> Zero,
     TDS_Amount |-> Zero,
     TCS_Amount |-> Zero,
     Taxable_Amount |-> Zero]

\* variant: only a negative sale price takes the degenerate branch
calculate_payout_StrictGuard(sale_price, product_cost, gst_rate, royalty_percent, flat, tds, tcs) ==
    IF sale_price.k \in {"str", "none"} THEN None
    ELSE IF Lt(sale_price, Zero)
    THEN IF product_cost.k \in {"str", "none"} THEN None
         ELSE Degenerate(product_cost)
    ELSE IF \E v \in {product_cost, gst_rate, royalty_percent} :
                v.k \in {"str", "none"}
    THEN None
    ELSE Breakdown(sale_price, product_cost, gst_rate, royalty_percent,
                   flat, tds, tcs)

\* the breakdown, or None when the body raised
calculate_payout(sale_price, product_cost, gst_rate, royalty_percent, flat, tds, tcs) ==
    IF sale_price.k \in {"str", "none"} THEN None       \* TypeError, caught
    ELSE IF Le(sale_price, Zero)
    THEN IF product_cost.k \in {"str", "none"} THEN None
         ELSE Degenerate(product_cost)
    ELSE IF \E v \in {product_cost, gst_rate, royalty_percent} :
                v.k \in {"str", "none"}
    THEN None
    ELSE Breakdown(sale_price, product_cost, gst_rate, royalty_percent,
                   flat, tds, tcs)

(***************************************************************************)
(* Direct calls of the two functions (tab3 line 325, tab4 lines 365 and    *)
(* 384, and the bulk loops' per-row calls) over bounded numeric inputs.    *)
(***************************************************************************)
Pending == [k |-> "pending", n |-> 0, d |-> 1]

SalePrices == {Int2(-100), Zero, Int2(1045)}
Costs == {Zero, Int2(500)}
TargetProfits == {Int2(-600), Int2(-500), Zero, Int2(100)}
GstRates == {Zero, Int2(5), Int2(12)}
RoyaltyPercents == {Zero, Int2(10), Int2(50)}
FlatRates == {Zero, Rat(42, 100), Rat(6, 10), One}
TdsRates == {Zero, Rat(1, 1000), One}
TcsRates == {Zero, Rat(1, 10), One}

NoFile == [present |-> FALSE, has_cols |-> FALSE, rows |-> <<>>]
NoDf == [stored |-> FALSE, rows |-> <<>>]
NoArgs == [sale_price |-> Zero, product_cost |-> Zero, target_profit |-> Zero,
           gst_rate |-> Zero, royalty_percent |-> Zero]

\* the bulk tabs before any upload
TabsIdle ==
    /\ uploaded_payout_file = NoFile /\ payout_msg = "" /\ processed_payout_df = NoDf
    /\ uploaded_price_file = NoFile /\ price_msg = "" /\ processed_price_df = NoDf

CalcInit ==
    /\ flat_rate \in FlatRates
    /\ tds_rate \in TdsRates
    /\ tcs_rate \in TcsRates
    /\ args \in [sale_price : SalePrices, product_cost : Costs,
                 target_profit : TargetProfits, gst_rate : GstRates,
                 royalty_percent : RoyaltyPercents]
    /\ req_sp = Pending /\ results = Pending /\ verified = Pending
    /\ TabsIdle
    /\ uploads = 0

tabsUnchanged ==
    UNCHANGED <<flat_rate, tds_rate, tcs_rate,
                uploaded_payout_file, payout_msg, processed_payout_df,
                uploaded_price_file, price_msg, processed_price_df, args,
                uploads>>

\* results = calculate_payout(sale price, cost, gst, royalty, rates)
CallPayout ==
    /\ results = Pending
    /\ results' = calculate_payout(args.sale_price, args.product_cost,
                      args.gst_rate, args.royalty_percent,
                      flat_rate, tds_rate, tcs_rate)
    /\ UNCHANGED <<req_sp, verified>>
    /\ tabsUnchanged

\* req_sp = calculate_sale_price(cost, target profit, gst, royalty, rates)
CallSalePrice ==
    /\ req_sp = Pending
    /\ req_sp' = calculate_sale_price(args.product_cost, args.target_profit,
                      args.gst_rate, args.royalty_percent,
                      flat_rate, tds_rate, tcs_rate)
    /\ UNCHANGED <<results, verified>>
    /\ tabsUnchanged

\* the verification step: the payout at the solved price
CallVerify ==
    /\ req_sp # Pending /\ req_sp # None
    /\ verified = Pending
    /\ verified' = calculate_payout(req_sp, args.product_cost,
                      args.gst_rate, args.royalty_percent,
                      flat_rate, tds_rate, tcs_rate)
    /\ UNCHANGED <<req_sp, results>>
    /\ tabsUnchanged

CalcNext == CallPayout \/ CallSalePrice \/ CallVerify

SpecCalc == CalcInit /\ [][CalcNext]_vars

(***************************************************************************)
(* Bulk tabs.  An uploaded file is [present, has_cols, rows]; a stored     *)
(* result (st.session_state) is [stored, rows].                            *)
(***************************************************************************)
MaxRows == 2
MaxUploads == 1

\* sidebar values used with the bulk tabs
SidebarFlatRates == {Rat(42, 100), Rat(6, 10)}
SidebarTdsRates == {Rat(1, 1000)}
SidebarTcsRates == {Rat(1, 10)}

PayoutRow(sp, cost, gst, roy) ==
    [Given_Sale_Price |-> sp, Product_Cost |-> cost,
     GST_Rate_Percent |-> gst, Royalty_Percent |-> roy]

PayoutRows ==
    { PayoutRow(Int2(1045), Int2(500), Int2(5), Int2(10)),
      PayoutRow(Int2(-100), Int2(500), Int2(5), Int2(10)),
      PayoutRow(Str, Int2(500), Int2(5), Int2(10)) }

PriceRow(cost, target, gst, mrp, roy) ==
    [Product_Cost |-> cost, Target_Net_Profit |-> target,
     GST_Rate_Percent |-> gst, MRP |-> mrp, Royalty_Percent |-> roy]

PriceRows ==
    { PriceRow(Int2(500), Int2(100), Int2(5), Int2(1899), Int2(10)),
      PriceRow(Int2(750), Int2(150), Int2(12), Int2(2499), Int2(50)),
      PriceRow(Int2(500), Int2(-600), Int2(5), Int2(1899), Int2(10)),
      PriceRow(Zero, Zero, Int2(5), Zero, Zero),
      PriceRow(Int2(500), Int2(100), Str, Int2(1899), Int2(10)) }

SeqsUpTo(S, n) == UNION { [1..m -> S] : m \in 0..n }

File(has_cols, rows) == [present |-> TRUE, has_cols |-> has_cols, rows |-> rows]

\* the files a user may upload: one lacking a required column, or rows
PayoutFiles ==
    {File(FALSE, <<>>)} \cup { File(TRUE, r) : r \in SeqsUpTo(PayoutRows, MaxRows) }

PriceFiles ==
    {File(FALSE, <<>>)} \cup { File(TRUE, r) : r \in SeqsUpTo(PriceRows, MaxRows) }

MsgColumns == "Input file must have columns"
MsgComplete == "Processing Complete"
MsgError == "Error processing file"

\* what a script run shows for a tab whose button was not pressed
RerunMsg(file) == IF file.present /\ ~file.has_cols THEN MsgColumns ELSE ""

\* a list assigned as a DataFrame column: None becomes NaN in a float column
RECURSIVE NoneToNaN(_)
NoneToNaN(list) ==
    IF list = <<>> THEN <<>>
    ELSE <<IF Head(list) = None THEN NaN ELSE Head(list)>>
             \o NoneToNaN(Tail(list))

ToColumn(list) ==
    IF \E i \in DOMAIN list : list[i].k # "none"
    THEN NoneToNaN(list)
    ELSE list

(* ---- tab1: Bulk Payout Checker -------------------------------------- *)
\* lines 140-145: one calculate_payout result appended per row, in order
RECURSIVE results_list(_, _, _, _)
results_list(rows, flat, tds, tcs) ==
    IF rows = <<>> THEN <<>>
    ELSE <<calculate_payout(Head(rows).Given_Sale_Price, Head(rows).Product_Cost,
                            Head(rows).GST_Rate_Percent, Head(rows).Royalty_Percent,
                            flat, tds, tcs)>>
             \o results_list(Tail(rows), flat, tds, tcs)

\* pd.DataFrame(results_list), the join and the selection of cols_to_round
\* raise when a result is None or there is no row
PayoutRaises(rl) == Len(rl) = 0 \/ \E i \in DOMAIN rl : rl[i] = None

\* variant: results attached in reverse order
JoinResults_Reversed(rows, rl) ==
    [i \in DOMAIN rows |->
        [Given_Sale_Price |-> rows[i].Given_Sale_Price,
         Product_Cost |-> rows[i].Product_Cost,
         GST_Rate_Percent |-> rows[i].GST_Rate_Percent,
         Royalty_Percent |-> rows[i].Royalty_Percent,
         Final_Settled_Amount |-> Round2(rl[Len(rl) + 1 - i].Final_Settled_Amount),
         Net_Profit |-> Round2(rl[Len(rl) + 1 - i].Net_Profit),
         Taxable_Amount |-> Round2(rl[Len(rl) + 1 - i].Taxable_Amount),
         Flat_Deduction_Amount |-> Round2(rl[Len(rl) + 1 - i].Flat_Deduction_Amount),
         Royalty_Fee_Amount |-> Round2(rl[Len(rl) + 1 - i].Royalty_Fee_Amount),
         TDS_Amount |-> Round2(rl[Len(rl) + 1 - i].TDS_Amount),
         TCS_Amount |-> Round2(rl[Len(rl) + 1 - i].TCS_Amount)]]

\* df.join(results_df) followed by the rounding of the result columns
JoinResults(rows, rl) ==
    [i \in DOMAIN rows |->
        [Given_Sale_Price |-> rows[i].Given_Sale_Price,
         Product_Cost |-> rows[i].Product_Cost,
         GST_Rate_Percent |-> rows[i].GST_Rate_Percent,
         Royalty_Percent |-> rows[i].Royalty_Percent,
         Final_Settled_Amount |-> Round2(rl[i].Final_Settled_Amount),
         Net_Profit |-> Round2(rl[i].Net_Profit),
         Taxable_Amount |-> Round2(rl[i].Taxable_Amount),
         Flat_Deduction_Amount |-> Round2(rl[i].Flat_Deduction_Amount),
         Royalty_Fee_Amount |-> Round2(rl[i].Royalty_Fee_Amount),
         TDS_Amount |-> Round2(rl[i].TDS_Amount),
         TCS_Amount |-> Round2(rl[i].TCS_Amount)]]

(* ---- tab2: Bulk Price Calculator ------------------------------------ *)
\* lines 217-222: one calculate_sale_price result appended per row
RECURSIVE sale_prices(_, _, _, _)
sale_prices(rows, flat, tds, tcs) ==
    IF rows = <<>> THEN <<>>
    ELSE <<calculate_sale_price(Head(rows).Product_Cost,
                                Head(rows).Target_Net_Profit,
                                Head(rows).GST_Rate_Percent,
                                Head(rows).Royalty_Percent, flat, tds, tcs)>>
             \o sale_prices(Tail(rows), flat, tds, tcs)

StatusNotPossible == "Profit Not Possible"
StatusOverMrp == "Error: Sale Price > MRP"
StatusOk == "OK"

\* variant: discount taken relative to the sale price
RowDiscount_OfPrice(sp, mrp) ==
    IF Gt(sp, mrp) THEN None
    ELSE Mul(Div(Sub(mrp, sp), sp), Hundred)

\* lines 253-258, discount
RowDiscount(sp, mrp) ==
    IF Gt(sp, mrp) THEN None
    ELSE Mul(Div(Sub(mrp, sp), mrp), Hundred)

\* lines 253-258, status
RowStatus(sp, mrp) == IF Gt(sp, mrp) THEN StatusOverMrp ELSE StatusOk

\* variant: the target profit alone
NetPayout_TargetOnly(cost, target_profit) == target_profit

\* line 250
NetPayout(cost, target_profit) == Add(cost, target_profit)

\* variant: the net payout of an impossible row is still cost + target
NotPossibleRow_KeepPayout(row) ==
    [Taxable_Amount |-> Zero, Flat_Deduction_Amount |-> Zero,
     Royalty_Fee_Amount |-> Zero, TDS_Amount |-> Zero, TCS_Amount |-> Zero,
     Discount_Percent |-> None,
     Net_Payout_Amount |-> IF IsNum(row.Product_Cost)
                           THEN Add(row.Product_Cost, row.Target_Net_Profit)
                           ELSE Zero,
     Status |-> StatusNotPossible]

\* lines 233-238: the values appended for a row without a sale price
NotPossibleRow(row) ==
    [Taxable_Amount |-> Zero, Flat_Deduction_Amount |-> Zero,
     Royalty_Fee_Amount |-> Zero, TDS_Amount |-> Zero, TCS_Amount |-> Zero,
     Discount_Percent |-> None, Net_Payout_Amount |-> Zero,
     Status |-> StatusNotPossible]

\* lines 229-258: the values the second loop appends for one row, unrounded
RowDetails(row, sp, flat, tds, tcs) ==
    IF IsNull(sp) THEN NotPossibleRow(row)
    ELSE LET gst_r == Div(row.GST_Rate_Percent, Hundred)
             royalty_r == Div(row.Royalty_Percent, Hundred)
             taxable_amount == Div(sp, Add(One, gst_r))
             gst_value == Sub(sp, Div(sp, Add(One, gst_r)))
         IN  [Taxable_Amount |-> taxable_amount,
              Flat_Deduction_Amount |-> Mul(sp, flat),
              Royalty_Fee_Amount |-> Mul(sp, royalty_r),
              TDS_Amount |-> Mul(taxable_amount, tds),
              TCS_Amount |-> Mul(gst_value, tcs),
              Discount_Percent |-> RowDiscount(sp, row.MRP),
              Net_Payout_Amount |->
                  NetPayout(row.Product_Cost, row.Target_Net_Profit),
              Status |-> RowStatus(sp, row.MRP)]

\* the second loop raises at this row: TypeError at line 231 or 253, or
\* ZeroDivisionError at line 258 when the row holds Python floats
RowRaises(row, sp, python_floats) ==
    \/ row.GST_Rate_Percent = Str
    \/ row.Royalty_Percent = Str
    \/ /\ ~IsNull(sp)
       /\ \/ row.MRP = Str
          \/ ~Gt(sp, row.MRP) /\ IsZero(row.MRP) /\ python_floats

\* lines 226-258: the second loop, one entry appended per row
RECURSIVE Details(_, _, _, _, _)
Details(rows, sps, flat, tds, tcs) ==
    IF rows = <<>> THEN <<>>
    ELSE <<RowDetails(Head(rows), Head(sps), flat, tds, tcs)>>
             \o Details(Tail(rows), Tail(sps), flat, tds, tcs)

RECURSIVE Discounts(_)
Discounts(det) ==
    IF det = <<>> THEN <<>>
    ELSE <<Head(det).Discount_Percent>> \o Discounts(Tail(det))

\* lines 261-276: the columns added to the frame, rounded
PriceTable(rows, sps, det, discounts) ==
    [i \in DOMAIN rows |->
        [Product_Cost |-> rows[i].Product_Cost,
         Target_Net_Profit |-> rows[i].Target_Net_Profit,
         GST_Rate_Percent |-> rows[i].GST_Rate_Percent,
         MRP |-> rows[i].MRP,
         Royalty_Percent |-> rows[i].Royalty_Percent,
         Required_Sale_Price |-> Round2(sps[i]),
         Taxable_Amount |-> Round2(det[i].Taxable_Amount),
         Flat_Deduction_Amount |-> Round2(det[i].Flat_Deduction_Amount),
         Royalty_Fee_Amount |-> Round2(det[i].Royalty_Fee_Amount),
         TDS_Amount |-> Round2(det[i].TDS_Amount),
         TCS_Amount |-> Round2(det[i].TCS_Amount),
         Discount_Percent |-> Round2(discounts[i]),
         Net_Payout_Amount |-> Round2(det[i].Net_Payout_Amount),
         Status |-> det[i].Status]]

\* the second loop raises at some row
PriceRaises(rows, sps, python_floats) ==
    \E i \in DOMAIN rows : RowRaises(rows[i], sps[i], python_floats)

\* lines 215-282: what the try block does with the uploaded rows: the frame
\* it stores, or raised when a statement raises and the except clause runs
PriceOutcome(rows, flat, tds, tcs, python_floats) ==
    LET sps == ToColumn(sale_prices(rows, flat, tds, tcs))
        det == Details(rows, sps, flat, tds, tcs)
    IN  IF PriceRaises(rows, sps, python_floats)
        THEN [raised |-> TRUE, rows |-> <<>>]
        ELSE [raised |-> FALSE,
              rows |-> PriceTable(rows, sps, det, ToColumn(Discounts(det)))]

\* lines 138-157: what the try block does with the uploaded rows
PayoutOutcome(rows, flat, tds, tcs) ==
    LET rl == results_list(rows, flat, tds, tcs)
    IN  IF PayoutRaises(rl)
        THEN [raised |-> TRUE, rows |-> <<>>]
        ELSE [raised |-> FALSE, rows |-> JoinResults(rows, rl)]

\* the sidebar rates, and the outcome of each button for every file and
\* rates (@@ makes the table an explicit function, so that each outcome is
\* evaluated once)
Rates == SidebarFlatRates \X SidebarTdsRates \X SidebarTcsRates

PayoutOutcomes ==
    [f \in PayoutFiles, r \in Rates |->
        PayoutOutcome(f.rows, r[1], r[2], r[3])] @@ <<>>

PriceOutcomes ==
    [f \in PriceFiles, r \in Rates, python_floats \in BOOLEAN |->
        PriceOutcome(f.rows, r[1], r[2], r[3], python_floats)] @@ <<>>

(* ---- actions --------------------------------------------------------- *)
Init ==
    /\ flat_rate = Rat(42, 100)
    /\ tds_rate = Rat(1, 1000)
    /\ tcs_rate = Rat(1, 10)
    /\ TabsIdle
    /\ uploads = 0
    /\ args = NoArgs
    /\ req_sp = Pending /\ results = Pending /\ verified = Pending

formsUnchanged == UNCHANGED <<args, req_sp, results, verified>>

\* a sidebar number_input is changed; the script reruns
ChangeRates ==
    /\ \E f \in SidebarFlatRates, t \in SidebarTdsRates, c \in SidebarTcsRates :
          /\ <<f, t, c>> # <<flat_rate, tds_rate, tcs_rate>>
          /\ flat_rate' = f /\ tds_rate' = t /\ tcs_rate' = c
    /\ payout_msg' = RerunMsg(uploaded_payout_file)
    /\ price_msg' = RerunMsg(uploaded_price_file)
    /\ UNCHANGED <<uploaded_payout_file, processed_payout_df,
                   uploaded_price_file, processed_price_df, uploads>>
    /\ formsUnchanged

UploadPayoutFile ==
    /\ uploads < MaxUploads
    /\ \E f \in PayoutFiles :
          /\ uploaded_payout_file' = f
          /\ payout_msg' = RerunMsg(f)
    /\ uploads' = uploads + 1
    /\ price_msg' = RerunMsg(uploaded_price_file)
    /\ UNCHANGED <<flat_rate, tds_rate, tcs_rate, processed_payout_df,
                   uploaded_price_file, processed_price_df>>
    /\ formsUnchanged

UploadPriceFile ==
    /\ uploads < MaxUploads
    /\ \E f \in PriceFiles :
          /\ uploaded_price_file' = f
          /\ price_msg' = RerunMsg(f)
    /\ uploads' = uploads + 1
    /\ payout_msg' = RerunMsg(uploaded_payout_file)
    /\ UNCHANGED <<flat_rate, tds_rate, tcs_rate, processed_price_df,
                   uploaded_payout_file, processed_payout_df>>
    /\ formsUnchanged

\* "Process Payout File" pressed
ProcessPayoutFile ==
    /\ uploaded_payout_file.present /\ uploaded_payout_file.has_cols
    /\ LET out == PayoutOutcomes[uploaded_payout_file,
                                 <<flat_rate, tds_rate, tcs_rate>>]
       IN  IF out.raised
           THEN /\ payout_msg' = MsgError
                /\ UNCHANGED processed_payout_df
           ELSE /\ processed_payout_df' = [stored |-> TRUE, rows |-> out.rows]
                /\ payout_msg' = MsgComplete
    /\ price_msg' = RerunMsg(uploaded_price_file)
    /\ UNCHANGED <<flat_rate, tds_rate, tcs_rate, uploaded_payout_file,
                   uploaded_price_file, processed_price_df, uploads>>
    /\ formsUnchanged

\* variant: the frame is stored before the second loop, so that a run that
\* raises leaves the uploaded rows stored without their results
ProcessPriceFile_StoreEarly ==
    /\ uploaded_price_file.present /\ uploaded_price_file.has_cols
    /\ \E python_floats \in BOOLEAN :
          LET out == PriceOutcomes[uploaded_price_file,
                                   <<flat_rate, tds_rate, tcs_rate>>,
                                   python_floats]
          IN  IF out.raised
              THEN /\ price_msg' = MsgError
                   /\ processed_price_df' =
                          [stored |-> TRUE, rows |-> uploaded_price_file.rows]
              ELSE /\ processed_price_df' =
                          [stored |-> TRUE, rows |-> out.rows]
                   /\ price_msg' = MsgComplete
    /\ payout_msg' = RerunMsg(uploaded_payout_file)
    /\ UNCHANGED <<flat_rate, tds_rate, tcs_rate, uploaded_price_file,
                   uploaded_payout_file, processed_payout_df, uploads>>
    /\ formsUnchanged

\* "Process Price File" pressed
ProcessPriceFile ==
    /\ uploaded_price_file.present /\ uploaded_price_file.has_cols
    /\ \E python_floats \in BOOLEAN :
          LET out == PriceOutcomes[uploaded_price_file,
                                   <<flat_rate, tds_rate, tcs_rate>>,
                                   python_floats]
          IN  IF out.raised
              THEN /\ price_msg' = MsgError
                   /\ UNCHANGED processed_price_df
              ELSE /\ processed_price_df' =
                          [stored |-> TRUE, rows |-> out.rows]
                   /\ price_msg' = MsgComplete
    /\ payout_msg' = RerunMsg(uploaded_payout_file)
    /\ UNCHANGED <<flat_rate, tds_rate, tcs_rate, uploaded_price_file,
                   uploaded_payout_file, processed_payout_df, uploads>>
    /\ formsUnchanged

Next ==
    \/ ChangeRates
    \/ UploadPayoutFile
    \/ UploadPriceFile
    \/ ProcessPayoutFile
    \/ ProcessPriceFile

Spec == Init /\ [][Next]_vars

(***************************************************************************)
(* A session in which files are uploaded again: each uploader may receive  *)
(* a new file after an earlier one was processed, so that a processing     *)
(* run can meet a result stored by an earlier run.  The files are built    *)
(* from one well-formed and one text-valued row per tab.                   *)
(***************************************************************************)
MaxRepeatUploads == 2

RepeatPayoutRows ==
    { PayoutRow(Int2(1045), Int2(500), Int2(5), Int2(10)),
      PayoutRow(Str, Int2(500), Int2(5), Int2(10)) }

RepeatPriceRows ==
    { PriceRow(Int2(500), Int2(100), Int2(5), Int2(1899), Int2(10)),
      PriceRow(Int2(500), Int2(100), Str, Int2(1899), Int2(10)) }

RepeatPayoutFiles ==
    {File(FALSE, <<>>)}
        \cup { File(TRUE, r) : r \in SeqsUpTo(RepeatPayoutRows, MaxRows) }

RepeatPriceFiles ==
    {File(FALSE, <<>>)}
        \cup { File(TRUE, r) : r \in SeqsUpTo(RepeatPriceRows, MaxRows) }

\* a file is put in the payout uploader, possibly replacing an earlier one
ReuploadPayoutFile ==
    /\ uploads < MaxRepeatUploads
    /\ \E f \in RepeatPayoutFiles :
          /\ uploaded_payout_file' = f
          /\ payout_msg' = RerunMsg(f)
    /\ uploads' = uploads + 1
    /\ price_msg' = RerunMsg(uploaded_price_file)
    /\ UNCHANGED <<flat_rate, tds_rate, tcs_rate, processed_payout_df,
                   uploaded_price_file, processed_price_df>>
    /\ formsUnchanged

\* a file is put in the price uploader, possibly replacing an earlier one
ReuploadPriceFile ==
    /\ uploads < MaxRepeatUploads
    /\ \E f \in RepeatPriceFiles :
          /\ uploaded_price_file' = f
          /\ price_msg' = RerunMsg(f)
    /\ uploads' = uploads + 1
    /\ payout_msg' = RerunMsg(uploaded_payout_file)
    /\ UNCHANGED <<flat_rate, tds_rate, tcs_rate, processed_price_df,
                   uploaded_payout_file, processed_payout_df>>
    /\ formsUnchanged

RepeatNext ==
    \/ ChangeRates
    \/ ReuploadPayoutFile
    \/ ReuploadPriceFile
    \/ ProcessPayoutFile
    \/ ProcessPriceFile

SpecRepeat == Init /\ [][RepeatNext]_vars

(***************************************************************************)
(* Properties of the two functions, under SpecCalc                         *)
(***************************************************************************)
Cents(n) == Rat(n, 100)
AbsDiff(a, b) == LET s == Sub(a, b) IN IF s.n < 0 THEN Neg(s) ELSE s
Within(x, v, tol) == Le(AbsDiff(Round2(x), v), tol)

ArgsDenominator ==
    Denominator(args.gst_rate, args.royalty_percent,
                flat_rate, tds_rate, tcs_rate)

\* C1 as stated: whenever the solved price is fed back into calculate_payout,
\* the Net_Profit of the breakdown equals the target profit.
C1_RoundTripAnyTarget ==
    verified # Pending =>
        /\ verified # None
        /\ verified.Net_Profit = args.target_profit

\* C1 (amended): when the denominator is > 0 and cost + targetProfit >= 0, the
\* payout at the solved price has Net_Profit equal to the target profit.
C1_RoundTrip ==
    (verified # Pending /\ Le(Zero, Add(args.product_cost, args.target_profit)))
        => /\ verified # None
           /\ verified.Net_Profit = args.target_profit

C1_Witness ==
    /\ verified # Pending /\ verified # None
    /\ Gt(req_sp, Zero)
    /\ args.target_profit = Int2(100) /\ args.product_cost = Int2(500)
    /\ args.gst_rate = Int2(5) /\ args.royalty_percent = Int2(10)
    /\ tcs_rate = Rat(1, 10) /\ tds_rate = Rat(1, 1000)
    /\ verified.Net_Profit = Int2(100)

\* C2: for a sale price > 0 the settled amount and the four deductions add up
\* to the sale price, and Net_Profit is the settled amount minus the cost.
C2_Conservation ==
    (results # Pending /\ Gt(args.sale_price, Zero)) =>
        /\ results # None
        /\ Add(results.Final_Settled_Amount,
               Add(Add(results.Flat_Deduction_Amount, results.Royalty_Fee_Amount),
                   Add(results.TDS_Amount, results.TCS_Amount)))
             = args.sale_price
        /\ results.Net_Profit
             = Sub(results.Final_Settled_Amount, args.product_cost)

C2_Witness ==
    /\ results # Pending /\ results # None
    /\ args.sale_price = Int2(1045)
    /\ Gt(results.TCS_Amount, Zero) /\ Gt(results.TDS_Amount, Zero)
    /\ Gt(results.Flat_Deduction_Amount, Zero)
    /\ Gt(results.Royalty_Fee_Amount, Zero)

\* C3: calculate_sale_price returns None exactly when the denominator is <= 0,
\* never the outcome of a division by zero, and otherwise
\* (targetProfit + cost) / denominator; with flatRate 0.6 and royalty 50 it
\* returns None whatever the other inputs.
C3_Infeasibility ==
    req_sp # Pending =>
        /\ (req_sp = None) <=> Le(ArgsDenominator, Zero)
        /\ req_sp.k # "zdiv"
        /\ ~Le(ArgsDenominator, Zero) =>
               Mul(req_sp, ArgsDenominator)
                   = Add(args.target_profit, args.product_cost)
        /\ (flat_rate = Rat(6, 10) /\ args.royalty_percent = Int2(50))
               => req_sp = None

C3_Witness ==
    /\ req_sp = None
    /\ \/ flat_rate = Rat(6, 10) /\ args.royalty_percent = Int2(50)
       \/ IsZero(ArgsDenominator)

\* C4: for a sale price <= 0 calculate_payout returns a breakdown whose
\* deduction fields are all 0 and whose Final_Settled_Amount and Net_Profit
\* are both -cost.
C4_Degenerate ==
    (results # Pending /\ Le(args.sale_price, Zero)) =>
        /\ results # None
        /\ \A f \in {"Taxable_Amount", "Flat_Deduction_Amount",
                     "Royalty_Fee_Amount", "TDS_Amount", "TCS_Amount"} :
               results[f] = Zero
        /\ results.Final_Settled_Amount = Neg(args.product_cost)
        /\ results.Net_Profit = Neg(args.product_cost)

C4_Witness ==
    /\ results # Pending /\ results # None
    /\ args.sale_price = Zero /\ args.product_cost = Int2(500)
    /\ results.Net_Profit = Int2(-500)

Scenario ==
    /\ args.sale_price = Int2(1045) /\ args.product_cost = Int2(500)
    /\ args.gst_rate = Int2(5) /\ args.royalty_percent = Int2(10)
    /\ flat_rate = Rat(42, 100) /\ tds_rate = Rat(1, 1000)
    /\ tcs_rate = Rat(1, 10)

ScenarioCommon ==
    /\ results # None
    /\ Within(results.Taxable_Amount, Cents(99524), Cents(1))
    /\ Within(GstValue(args.sale_price, args.gst_rate), Cents(4976), Cents(1))
    /\ Round2(results.Royalty_Fee_Amount) = Cents(10450)
    /\ Round2(results.TDS_Amount) = Cents(100)
    /\ Round2(results.TCS_Amount) = Cents(498)

\* C9 as stated: the scenario yields flat deduction 439.00 (+-0.01), settled
\* amount 495.52 and net profit -4.48.
C9_ScenarioAsStated ==
    (Scenario /\ results # Pending) =>
        /\ ScenarioCommon
        /\ Within(results.Flat_Deduction_Amount, Cents(43900), Cents(1))
        /\ Round2(results.Final_Settled_Amount) = Cents(49552)
        /\ Round2(results.Net_Profit) = Cents(-448)

\* C9 (amended): the scenario yields taxable 995.24, GST 49.76, flat deduction
\* 438.90, royalty 104.50, TDS 1.00, TCS 4.98, settled amount 495.63 and net
\* profit -4.37, after rounding to 2 decimals.
C9_Scenario ==
    (Scenario /\ results # Pending) =>
        /\ ScenarioCommon
        /\ Round2(results.Flat_Deduction_Amount) = Cents(43890)
        /\ Round2(results.Final_Settled_Amount) = Cents(49563)
        /\ Round2(results.Net_Profit) = Cents(-437)

C9_Witness == Scenario /\ results # Pending /\ results # None

(***************************************************************************)
(* Properties of the bulk tabs, under Spec.  In a state whose message is   *)
(* MsgComplete the uploaded file and the sidebar rates are the ones the    *)
(* stored table was computed from.                                         *)
(***************************************************************************)
PayoutDone == payout_msg = MsgComplete
PriceDone == price_msg = MsgComplete

in_rows == uploaded_price_file.rows
out_rows == processed_price_df.rows

\* the sidebar rates of the current state
rates == <<flat_rate, tds_rate, tcs_rate>>

\* calculate_sale_price for every price row and rates
SolvedPrices ==
    [row \in PriceRows, r \in Rates |->
        calculate_sale_price(row.Product_Cost, row.Target_Net_Profit,
                             row.GST_Rate_Percent, row.Royalty_Percent,
                             r[1], r[2], r[3])] @@ <<>>

\* the unrounded price calculate_sale_price returns for uploaded row i
SolvedPrice(i) == SolvedPrices[in_rows[i], rates]

\* the second loop's unrounded values for every price row and rates
RowDetailsAt ==
    [row \in PriceRows, r \in Rates |->
        RowDetails(row, SolvedPrices[row, r], r[1], r[2], r[3])] @@ <<>>

DetailsOf(i) == RowDetailsAt[in_rows[i], rates]

\* Final_Settled_Amount of calculate_payout at the solved price
SettledAmounts ==
    [row \in PriceRows, r \in Rates |->
        IF IsNum(SolvedPrices[row, r])
        THEN calculate_payout(SolvedPrices[row, r], row.Product_Cost,
                              row.GST_Rate_Percent, row.Royalty_Percent,
                              r[1], r[2], r[3]).Final_Settled_Amount
        ELSE None] @@ <<>>

SettledAt(i) == SettledAmounts[in_rows[i], rates]

\* calculate_payout for every payout row and rates
Payouts ==
    [row \in PayoutRows, r \in Rates |->
        calculate_payout(row.Given_Sale_Price, row.Product_Cost,
                         row.GST_Rate_Percent, row.Royalty_Percent,
                         r[1], r[2], r[3])] @@ <<>>

PayoutOf(row) == Payouts[row, rates]

Numeric(row) == \A f \in DOMAIN row : IsNum(row[f])
Malformed(row) == ~Numeric(row)

SameCell(a, b) == (IsNull(a) /\ IsNull(b)) \/ a = b

\* C5: in a processed price table, a feasible row with an MRP has the
\* over-MRP status, a null discount and the solved price (not the MRP) when
\* the price exceeds the MRP; otherwise status OK and discount
\* (MRP - price) / MRP * 100.  Reported values are rounded to 2 decimals.
C5_Ceiling ==
    PriceDone =>
        /\ Len(out_rows) = Len(in_rows)
        /\ \A i \in DOMAIN in_rows :
              (IsNum(SolvedPrice(i)) /\ IsNum(in_rows[i].MRP)) =>
                 /\ out_rows[i].Required_Sale_Price = Round2(SolvedPrice(i))
                 /\ Gt(SolvedPrice(i), in_rows[i].MRP) =>
                       /\ out_rows[i].Status = StatusOverMrp
                       /\ IsNull(out_rows[i].Discount_Percent)
                 /\ Le(SolvedPrice(i), in_rows[i].MRP) =>
                       /\ out_rows[i].Status = StatusOk
                       /\ out_rows[i].Discount_Percent =
                             Round2(Mul(Div(Sub(in_rows[i].MRP, SolvedPrice(i)),
                                            in_rows[i].MRP), Hundred))

C5_Witness ==
    /\ PriceDone
    /\ \E i, j \in DOMAIN in_rows :
          /\ IsNum(SolvedPrice(i)) /\ IsNum(in_rows[i].MRP)
          /\ Gt(SolvedPrice(i), in_rows[i].MRP)
          /\ Gt(out_rows[i].Required_Sale_Price, in_rows[i].MRP)
          /\ IsNum(SolvedPrice(j)) /\ IsNum(in_rows[j].MRP)
          /\ Lt(SolvedPrice(j), in_rows[j].MRP)
          /\ Gt(out_rows[j].Discount_Percent, Zero)

ZeroFields ==
    {"Taxable_Amount", "Flat_Deduction_Amount", "Royalty_Fee_Amount",
     "TDS_Amount", "TCS_Amount", "Net_Payout_Amount"}

\* C6 as stated: a row without a solution has status Profit Not Possible, a
\* required sale price of zero, all other numeric fields zero and a null
\* discount.
C6_InfeasibleRowZeroPrice ==
    PriceDone =>
        \A i \in DOMAIN in_rows :
           SolvedPrice(i) = None =>
              /\ out_rows[i].Status = StatusNotPossible
              /\ out_rows[i].Required_Sale_Price = Zero
              /\ \A f \in ZeroFields : out_rows[i][f] = Zero
              /\ IsNull(out_rows[i].Discount_Percent)

\* C6 (amended): a row without a solution has status Profit Not Possible,
\* taxable amount, flat deduction, royalty fee, TDS, TCS and net payout zero,
\* required sale price and discount null, and every row of the batch still
\* gets its output row.
C6_InfeasibleRow ==
    PriceDone =>
        /\ Len(out_rows) = Len(in_rows)
        /\ \A i \in DOMAIN in_rows :
              SolvedPrice(i) = None =>
                 /\ out_rows[i].Status = StatusNotPossible
                 /\ IsNull(out_rows[i].Required_Sale_Price)
                 /\ \A f \in ZeroFields : out_rows[i][f] = Zero
                 /\ IsNull(out_rows[i].Discount_Percent)

C6_Witness ==
    /\ PriceDone
    /\ Len(in_rows) = 2
    /\ Numeric(in_rows[1])
    /\ SolvedPrice(1) = None
    /\ out_rows[1].Status = StatusNotPossible
    /\ out_rows[2].Status # StatusNotPossible

\* C7: a malformed row never aborts a batch; when a file with a malformed
\* row is processed the processing completes.
C7_RowIsolation ==
    /\ (\E i \in DOMAIN uploaded_payout_file.rows :
            Malformed(uploaded_payout_file.rows[i]))
          => payout_msg # MsgError
    /\ (\E i \in DOMAIN in_rows : Malformed(in_rows[i]))
          => price_msg # MsgError

p_in_rows == uploaded_payout_file.rows
p_out_rows == processed_payout_df.rows

DetailFields ==
    {"Taxable_Amount", "Flat_Deduction_Amount", "Royalty_Fee_Amount",
     "TDS_Amount", "TCS_Amount", "Discount_Percent", "Net_Payout_Amount"}

DeductionSum(det) ==
    Add(Add(det.Flat_Deduction_Amount, det.Royalty_Fee_Amount),
        Add(det.TDS_Amount, det.TCS_Amount))

\* C10 as stated: for every feasible row the net payout (cost + target
\* profit) equals the price minus the row's four deductions and equals the
\* Final_Settled_Amount of calculate_payout at that price.
C10_NetPayoutAnyPrice ==
    PriceDone =>
        \A i \in DOMAIN in_rows :
           IsNum(SolvedPrice(i)) =>
              /\ DetailsOf(i).Net_Payout_Amount
                    = Sub(SolvedPrice(i), DeductionSum(DetailsOf(i)))
              /\ DetailsOf(i).Net_Payout_Amount = SettledAt(i)

\* C10 (amended): for every feasible row the net payout equals the price
\* minus the row's four deductions (before rounding) and is reported rounded;
\* when the price is > 0 it equals the Final_Settled_Amount of
\* calculate_payout at that price.
C10_NetPayout ==
    PriceDone =>
        \A i \in DOMAIN in_rows :
           IsNum(SolvedPrice(i)) =>
              /\ DetailsOf(i).Net_Payout_Amount
                    = Sub(SolvedPrice(i), DeductionSum(DetailsOf(i)))
              /\ out_rows[i].Net_Payout_Amount
                    = Round2(DetailsOf(i).Net_Payout_Amount)
              /\ Gt(SolvedPrice(i), Zero) =>
                    /\ DetailsOf(i).Net_Payout_Amount = SettledAt(i)
                    /\ out_rows[i].Net_Payout_Amount = Round2(SettledAt(i))

C10_Witness ==
    /\ PriceDone
    /\ \E i \in DOMAIN in_rows :
          /\ Gt(SolvedPrice(i), Zero)
          /\ Gt(DetailsOf(i).TCS_Amount, Zero)
          /\ out_rows[i].Net_Payout_Amount = Int2(600)
          /\ SettledAt(i) = Int2(600)

(***************************************************************************)
(* Storage of the processed tables, under SpecRepeat                       *)
(***************************************************************************)
PayoutColumns ==
    {"Given_Sale_Price", "Product_Cost", "GST_Rate_Percent", "Royalty_Percent"}
        \cup Keys

PriceColumns ==
    {"Product_Cost", "Target_Net_Profit", "GST_Rate_Percent", "MRP",
     "Royalty_Percent", "Required_Sale_Price", "Status"} \cup DetailFields

\* df is the whole, rounded payout result of file under the rates r
PayoutTableComplete(file, df, r) ==
    /\ df.stored
    /\ Len(df.rows) = Len(file.rows)
    /\ \A i \in DOMAIN file.rows :
          /\ DOMAIN df.rows[i] = PayoutColumns
          /\ \A f \in DOMAIN file.rows[i] : df.rows[i][f] = file.rows[i][f]
          /\ Payouts[file.rows[i], r] # None
          /\ \A f \in Keys :
                df.rows[i][f] = Round2(Payouts[file.rows[i], r][f])

\* df is the whole, rounded price result of file under the rates r
PriceTableComplete(file, df, r) ==
    /\ df.stored
    /\ Len(df.rows) = Len(file.rows)
    /\ \A i \in DOMAIN file.rows :
          /\ DOMAIN df.rows[i] = PriceColumns
          /\ \A f \in DOMAIN file.rows[i] : df.rows[i][f] = file.rows[i][f]
          /\ SameCell(df.rows[i].Required_Sale_Price,
                      Round2(SolvedPrices[file.rows[i], r]))
          /\ \A f \in DetailFields :
                SameCell(df.rows[i][f], Round2(RowDetailsAt[file.rows[i], r][f]))
          /\ df.rows[i].Status = RowDetailsAt[file.rows[i], r].Status

\* C11: in each batch mode the stored table is replaced only by the table of
\* a run that computed and rounded every row of the uploaded file; when the
\* required columns are missing or processing fails at a row (no
\* "Processing Complete"), the table stored before (if any) is left
\* unchanged, so no partly processed table is ever stored.
C11_AllOrNothing ==
    [][ /\ payout_msg' # MsgComplete
              => processed_payout_df' = processed_payout_df
        /\ processed_payout_df' # processed_payout_df
              => /\ payout_msg' = MsgComplete
                 /\ PayoutTableComplete(uploaded_payout_file',
                                        processed_payout_df',
                                        <<flat_rate', tds_rate', tcs_rate'>>)
        /\ price_msg' # MsgComplete
              => processed_price_df' = processed_price_df
        /\ processed_price_df' # processed_price_df
              => /\ price_msg' = MsgComplete
                 /\ PriceTableComplete(uploaded_price_file',
                                       processed_price_df',
                                       <<flat_rate', tds_rate', tcs_rate'>>)
      ]_vars

\* processing failed at the second row of a two-row file whose first row is
\* well-formed, while the table of an earlier one-row file is still stored
C11_Witness ==
    /\ payout_msg = MsgError
    /\ Len(p_in_rows) = 2
    /\ Numeric(p_in_rows[1]) /\ Malformed(p_in_rows[2])
    /\ processed_payout_df.stored
    /\ Len(p_out_rows) = 1
    /\ DOMAIN p_out_rows[1] = PayoutColumns

====
